---------------------------- MODULE Spec2Model ----------------------------
(***************************************************************************)
(* The JBL MA series IP-control codec of intg_jblav/protocol.py:           *)
(* build_command, parse_response and the catalog of command builders.      *)
(* The codec is stateless, so a behaviour is one call: the initial state   *)
(* holds the function called and its arguments, the one step that follows  *)
(* applies the function and records what it returned or raised.            *)
(***************************************************************************)
EXTENDS Integers, Sequences, FiniteSets, TLC

VARIABLES
    op,       \* the function called
    cmd_id,   \* build_command's cmd_id argument
    data,     \* parse_response's data, or build_command's *data tuple
    arg,      \* the integer argument of a parameterised builder
    ret,      \* what the call returned or raised; Pending before it ran
    \* JBLAVRemote (remote.py)
    remote_state,  \* attributes[Attributes.STATE]
    api,           \* whether self.api is set and truthy
    emitted,       \* calls of api.configured_entities.update(self) so far
    updates,       \* the attribute dicts the device has sent, oldest first
    cmd_status,    \* what handle_command returned last
    \* JBLAVSetupFlow.query_device (setup_flow.py)
    qd_pc,         \* where the coroutine stands
    input_values,  \* the dict of the setup form
    connected,     \* how test_device.connect() under wait_for ended
    disconnect,    \* whether test_device.disconnect() was called, and how it ended
    qd_result      \* what query_device returned or raised

codecVars == <<op, cmd_id, data, arg, ret>>
remoteVars == <<remote_state, api, emitted, updates, cmd_status>>
setupVars == <<qd_pc, input_values, connected, disconnect, qd_result>>
vars == <<codecVars, remoteVars, setupVars>>

-----------------------------------------------------------------------------
(* Bounds of the checked inputs *)

\* longest byte sequence over Alphabet handed to parse_response
MaxLen == 7
\* longest *data tuple over DataVals handed to build_command, and longest
\* data section of the structured inbound frames
MaxData == 3

-----------------------------------------------------------------------------
(* class JBLCommand(IntEnum) *)

POWER == 0
DISPLAY_DIM == 1
VERSION == 2
SIMULATE_IR == 4
INPUT_SOURCE == 5
VOLUME == 6
MUTE == 7
SURROUND_MODE == 8
PARTY_MODE == 9
PARTY_VOLUME == 10
TREBLE_EQ == 11
BASS_EQ == 12
ROOM_EQ == 13
DIALOG_ENHANCED == 14
DOLBY_AUDIO_MODE == 15
DRC == 16
STREAMING_STATE == 17
INITIALIZATION == 80
HEARTBEAT == 81
REBOOT == 82
FACTORY_RESET == 83

JBLCommand ==
    { POWER, DISPLAY_DIM, VERSION, SIMULATE_IR, INPUT_SOURCE, VOLUME, MUTE,
      SURROUND_MODE, PARTY_MODE, PARTY_VOLUME, TREBLE_EQ, BASS_EQ, ROOM_EQ,
      DIALOG_ENHANCED, DOLBY_AUDIO_MODE, DRC, STREAMING_STATE, INITIALIZATION,
      HEARTBEAT, REBOOT, FACTORY_RESET }

(* class JBLResponseCode(IntEnum) *)

STATUS_UPDATE == 0
COMMAND_NOT_RECOGNIZED == 193
PARAMETER_NOT_RECOGNIZED == 194
COMMAND_INVALID == 195
INVALID_DATA_LENGTH == 196

JBLResponseCode ==
    { STATUS_UPDATE, COMMAND_NOT_RECOGNIZED, PARAMETER_NOT_RECOGNIZED,
      COMMAND_INVALID, INVALID_DATA_LENGTH }

(* JBLProtocol's protocol constants *)

CMD_START == 35                 \* 0x23
RESP_START == <<2, 35>>         \* bytes([0x02, 0x23])
END == 13                       \* 0x0D
REQUEST_DATA == 240             \* 0xF0

-----------------------------------------------------------------------------
(* Python values and builtins the codec uses *)

\* what a call leaves behind: None, a dict, a bytes object or an exception
Pending == [kind |-> "pending", cmd_id |-> 0, rsp_code |-> 0, bytes |-> <<>>, exc |-> ""]
None == [kind |-> "None", cmd_id |-> 0, rsp_code |-> 0, bytes |-> <<>>, exc |-> ""]
Dict(c, r, d) == [kind |-> "dict", cmd_id |-> c, rsp_code |-> r, bytes |-> d, exc |-> ""]
Bytes(b) == [kind |-> "bytes", cmd_id |-> 0, rsp_code |-> 0, bytes |-> b, exc |-> ""]
Raise(e) == [kind |-> "raise", cmd_id |-> 0, rsp_code |-> 0, bytes |-> <<>>, exc |-> e]

Min(a, b) == IF a < b THEN a ELSE b
Max(a, b) == IF a > b THEN a ELSE b

\* bytes(iterable of ints) accepts only values in range(0, 256)
IsByteList(s) == \A i \in 1..Len(s) : s[i] \in 0..255

\* s[i] with Python's 0-based index, negative counting from the end;
\* an index outside -len(s)..len(s)-1 raises IndexError
HasIndex(s, i) == -Len(s) <= i /\ i < Len(s)
At(s, i) == IF i >= 0 THEN s[i + 1] ELSE s[Len(s) + i + 1]

\* s[lo:hi] for 0 <= lo <= hi: never raises, is cut at the end of s
Slice(s, lo, hi) == SubSeq(s, lo + 1, Min(hi, Len(s)))

\* x >> n and x & 0xFF on Python's unbounded integers (floor shift)
ShiftRight(x, n) == x \div (2 ^ n)
AndFF(x) == x % 256

-----------------------------------------------------------------------------
(* JBLProtocol.build_command *)

\* variant: the length masked to a byte instead of handed to bytes() as it is
HeaderBytes_wrapped(c, data_len) == <<CMD_START, c, data_len % 256>>
\* bytes([JBLProtocol.CMD_START, cmd_id, data_len])
HeaderBytes(c, data_len) == <<CMD_START, c, data_len>>

BuildCommand(c, d) ==
    LET data_len == Len(d)
        header == HeaderBytes(c, data_len)
    IN  IF ~IsByteList(header) THEN Raise("ValueError")
        ELSE IF ~IsByteList(d) THEN Raise("ValueError")
        ELSE Bytes(header \o d \o <<END>>)

-----------------------------------------------------------------------------
(* JBLProtocol.parse_response *)

\* variant: a minimum that covers the start marker and one byte only
TooShort_3(d) == Len(d) < 3
\* if len(data) < 5
TooShort(d) == Len(d) < 5

\* variant: the outbound one-byte start marker tested instead
StartOk_single(d) == Slice(d, 0, 1) = <<CMD_START>>
\* data[0:2] == JBLProtocol.RESP_START
StartOk(d) == Slice(d, 0, 2) = RESP_START

\* variant: the end byte left untested
EndOk_any(d) == TRUE
\* data[-1] == JBLProtocol.END
EndOk(d) == At(d, -1) = END

\* variant: the declared length never tested against the bytes present
Incomplete_never(d, data_len) == FALSE
\* if len(data) < 5 + data_len + 1
Incomplete(d, data_len) == Len(d) < 5 + data_len + 1

\* variant: the slice taken one byte early, from the DATA_LEN byte
ResponseData_shifted(d, data_len) == Slice(d, 4, 4 + data_len)
\* list(data[5:5 + data_len])
ResponseData(d, data_len) == Slice(d, 5, 5 + data_len)

ParseResponse(d) ==
    IF TooShort(d) THEN None
    ELSE IF ~StartOk(d) THEN None
    ELSE IF ~HasIndex(d, -1) THEN Raise("IndexError")
    ELSE IF ~EndOk(d) THEN None
    ELSE IF ~(HasIndex(d, 2) /\ HasIndex(d, 3) /\ HasIndex(d, 4))
         THEN Raise("IndexError")
    ELSE LET c == At(d, 2)
             r == At(d, 3)
             data_len == At(d, 4)
         IN  IF data_len > 0
             THEN IF Incomplete(d, data_len) THEN None
                  ELSE Dict(c, r, ResponseData(d, data_len))
             ELSE Dict(c, r, <<>>)

-----------------------------------------------------------------------------
(* The command catalog: one builder per operation *)

cmd_power_on == BuildCommand(POWER, <<1>>)

cmd_power_off == BuildCommand(POWER, <<0>>)

cmd_power_query == BuildCommand(POWER, <<REQUEST_DATA>>)

\* variant: the upper limit one too high
cmd_volume_set_100(volume) ==
    LET v == Max(0, Min(100, volume))
    IN  BuildCommand(VOLUME, <<v>>)
cmd_volume_set(volume) ==
    LET v == Max(0, Min(99, volume))
    IN  BuildCommand(VOLUME, <<v>>)

cmd_volume_query == BuildCommand(VOLUME, <<REQUEST_DATA>>)

cmd_mute_on == BuildCommand(MUTE, <<1>>)

cmd_mute_off == BuildCommand(MUTE, <<0>>)

cmd_mute_query == BuildCommand(MUTE, <<REQUEST_DATA>>)

cmd_input_source_set(source) ==
    BuildCommand(INPUT_SOURCE, <<source>>)

cmd_input_source_query == BuildCommand(INPUT_SOURCE, <<REQUEST_DATA>>)

cmd_surround_mode_set(mode) ==
    BuildCommand(SURROUND_MODE, <<mode>>)

cmd_surround_mode_query == BuildCommand(SURROUND_MODE, <<REQUEST_DATA>>)

cmd_initialization == BuildCommand(INITIALIZATION, <<REQUEST_DATA>>)

cmd_heartbeat == BuildCommand(HEARTBEAT, <<>>)

cmd_version_query(version_type) ==
    BuildCommand(VERSION, <<version_type>>)

cmd_display_dim_set(level) ==
    LET l == Max(0, Min(3, level))
    IN  BuildCommand(DISPLAY_DIM, <<l>>)

cmd_display_dim_query == BuildCommand(DISPLAY_DIM, <<REQUEST_DATA>>)

\* variant: the three bytes sent least-significant first
cmd_ir_simulate_lsb_first(ir_code) ==
    LET byte1 == AndFF(ShiftRight(ir_code, 16))
        byte2 == AndFF(ShiftRight(ir_code, 8))
        byte3 == AndFF(ir_code)
    IN  BuildCommand(SIMULATE_IR, <<byte3, byte2, byte1>>)
cmd_ir_simulate(ir_code) ==
    LET byte1 == AndFF(ShiftRight(ir_code, 16))
        byte2 == AndFF(ShiftRight(ir_code, 8))
        byte3 == AndFF(ir_code)
    IN  BuildCommand(SIMULATE_IR, <<byte1, byte2, byte3>>)

cmd_party_mode_on == BuildCommand(PARTY_MODE, <<1>>)

cmd_party_mode_off == BuildCommand(PARTY_MODE, <<0>>)

cmd_party_mode_query == BuildCommand(PARTY_MODE, <<REQUEST_DATA>>)

cmd_party_volume_set(volume) ==
    LET v == Max(0, Min(99, volume))
    IN  BuildCommand(PARTY_VOLUME, <<v>>)

cmd_party_volume_query == BuildCommand(PARTY_VOLUME, <<REQUEST_DATA>>)

\* variant: the level clamped to 0..12 first and shifted by 6 afterwards
cmd_treble_eq_set_clamp_first(level) ==
    LET l == Max(0, Min(12, level)) + 6
    IN  BuildCommand(TREBLE_EQ, <<l>>)
cmd_treble_eq_set(level) ==
    LET l == Max(0, Min(12, level + 6))
    IN  BuildCommand(TREBLE_EQ, <<l>>)

cmd_treble_eq_query == BuildCommand(TREBLE_EQ, <<REQUEST_DATA>>)

cmd_bass_eq_set(level) ==
    LET l == Max(0, Min(12, level + 6))
    IN  BuildCommand(BASS_EQ, <<l>>)

cmd_bass_eq_query == BuildCommand(BASS_EQ, <<REQUEST_DATA>>)

\* variant: the identifier of the neighbouring builder
cmd_room_eq_on_pasted == BuildCommand(DIALOG_ENHANCED, <<1>>)

cmd_room_eq_on == BuildCommand(ROOM_EQ, <<1>>)

cmd_room_eq_off == BuildCommand(ROOM_EQ, <<0>>)

cmd_room_eq_query == BuildCommand(ROOM_EQ, <<REQUEST_DATA>>)

cmd_dialog_enhanced_on == BuildCommand(DIALOG_ENHANCED, <<1>>)

cmd_dialog_enhanced_off == BuildCommand(DIALOG_ENHANCED, <<0>>)

cmd_dialog_enhanced_query == BuildCommand(DIALOG_ENHANCED, <<REQUEST_DATA>>)

cmd_dolby_audio_mode_on == BuildCommand(DOLBY_AUDIO_MODE, <<1>>)

cmd_dolby_audio_mode_off == BuildCommand(DOLBY_AUDIO_MODE, <<0>>)

cmd_dolby_audio_mode_query == BuildCommand(DOLBY_AUDIO_MODE, <<REQUEST_DATA>>)

cmd_drc_on == BuildCommand(DRC, <<1>>)

cmd_drc_off == BuildCommand(DRC, <<0>>)

cmd_drc_query == BuildCommand(DRC, <<REQUEST_DATA>>)

cmd_streaming_state_query == BuildCommand(STREAMING_STATE, <<REQUEST_DATA>>)

cmd_reboot == BuildCommand(REBOOT, <<>>)

cmd_factory_reset == BuildCommand(FACTORY_RESET, <<>>)

-----------------------------------------------------------------------------
(* The inputs the calls are checked on *)

\* every sequence over S of length 0..n
ByteSeqs(S, n) == UNION { [1..k -> S] : k \in 0..n }

\* marker bytes, and small values that double as DATA_LEN
Alphabet == {0, 1, 2, 13, 35}

\* inbound frames with a true DATA_LEN, any CMD_ID and RSP_CODE, data that
\* may hold the marker bytes, and a right or a wrong end byte
FrameCmds == {6, 13, 35, 153, 255}
FrameRsps == JBLResponseCode \cup {127}
FrameDataVals == {13, 35, 50}
StructuredFrames ==
    { RESP_START \o <<c, r, Len(d)>> \o d \o <<e>> :
        c \in FrameCmds, r \in FrameRsps,
        d \in ByteSeqs(FrameDataVals, MaxData), e \in {END, 10} }

\* frames at the top of DATA_LEN's range, declared right and wrong
LongLens == {254, 255}
LongFrames ==
    { RESP_START \o <<VOLUME, STATUS_UPDATE, n>> \o [i \in 1..k |-> f] \o <<END>> :
        n \in LongLens, k \in LongLens, f \in {0, 13} }

ShortInputs == ByteSeqs(Alphabet, MaxLen) \cup StructuredFrames
ParseInputs == ShortInputs \cup LongFrames

\* build_command's arguments: catalog and foreign identifiers, data values
\* inside and outside a byte, tuples up to and beyond 255 entries
CmdIdVals == JBLCommand \cup {35, 255, 256, -1}
DataVals == {0, 2, 13, 35, 255, 256, -1}
LongTupleLens == {255, 256, 257}
LongTuples == { [i \in 1..k |-> 0] : k \in LongTupleLens }
BuildInputs == ByteSeqs(DataVals, MaxData) \cup LongTuples

\* integer arguments of the parameterised builders
ArgVals ==
    (-8 .. 15) \cup {-300, -256, -100, 50, 98, 99, 100, 150, 239, 240, 241,
                     255, 256, 300}
\* the IR_* codes of JBLProtocol (NEC format, 24-bit)
IrCodeTable ==
    { 69123, 69131, 69132, 69137, 69139, 69153, 69155, 69169, 69171,
      69177, 69187, 69201, 69203, 69209, 69233, 69235, 69236, 69249,
      69251, 69259, 69260, 69265, 69273, 69281, 69297, 69305, 69315,
      69321, 69322, 69329, 69331, 69337, 69339, 69347, 69364, 69369 }
\* IR codes: the table, each byte boundary of the 24 bits, and values
\* outside 0..2^24-1
IrVals ==
    IrCodeTable \cup (0 .. 300) \cup
    {65535, 65536, 65537, 69337, 69363, 1193046, 16711680, 16777215,
     16777216, 16846339, -1, -65536}

FixedBuilders ==
    { "cmd_power_on", "cmd_power_off", "cmd_power_query",
      "cmd_volume_query", "cmd_mute_on", "cmd_mute_off", "cmd_mute_query",
      "cmd_input_source_query", "cmd_surround_mode_query",
      "cmd_initialization", "cmd_heartbeat", "cmd_display_dim_query",
      "cmd_party_mode_on", "cmd_party_mode_off", "cmd_party_mode_query",
      "cmd_party_volume_query", "cmd_treble_eq_query", "cmd_bass_eq_query",
      "cmd_room_eq_on", "cmd_room_eq_off", "cmd_room_eq_query",
      "cmd_dialog_enhanced_on", "cmd_dialog_enhanced_off",
      "cmd_dialog_enhanced_query", "cmd_dolby_audio_mode_on",
      "cmd_dolby_audio_mode_off", "cmd_dolby_audio_mode_query",
      "cmd_drc_on", "cmd_drc_off", "cmd_drc_query",
      "cmd_streaming_state_query", "cmd_reboot", "cmd_factory_reset" }

ArgBuilders ==
    { "cmd_volume_set", "cmd_input_source_set", "cmd_surround_mode_set",
      "cmd_version_query", "cmd_display_dim_set", "cmd_party_volume_set",
      "cmd_treble_eq_set", "cmd_bass_eq_set" }

CatalogBuilders == FixedBuilders \cup ArgBuilders \cup {"cmd_ir_simulate"}

-----------------------------------------------------------------------------
(* The calls *)

\* JBLAVRemote.__init__: STATE is UNAVAILABLE, nothing received or emitted
RemoteConstructed ==
    /\ remote_state = "UNAVAILABLE"
    /\ api = FALSE
    /\ emitted = 0
    /\ updates = <<>>
    /\ cmd_status = "none"

\* no setup flow is running
NoResult == [kind |-> "none", exc |-> "", msg |-> ""]
SetupIdle ==
    /\ qd_pc = "idle"
    /\ input_values = [k \in {} |-> <<>>]
    /\ connected = "not_called"
    /\ disconnect = "not_called"
    /\ qd_result = NoResult

Init ==
    /\ RemoteConstructed
    /\ SetupIdle
    /\ ret = Pending
    /\ \/ /\ op = "parse_response"
          /\ data \in ShortInputs
          /\ cmd_id = 0
          /\ arg = 0
       \/ /\ op = "parse_response"
          /\ data \in LongFrames
          /\ cmd_id = 0
          /\ arg = 0
       \/ /\ op \in {"build_command", "parse_built"}
          /\ cmd_id \in CmdIdVals
          /\ data \in BuildInputs
          /\ arg = 0
       \/ /\ op \in ArgBuilders
          /\ arg \in ArgVals
          /\ cmd_id = 0
          /\ data = <<>>
       \/ /\ op = "cmd_ir_simulate"
          /\ arg \in IrVals
          /\ cmd_id = 0
          /\ data = <<>>
       \/ /\ op \in FixedBuilders
          /\ arg = 0
          /\ cmd_id = 0
          /\ data = <<>>

\* each call runs once and leaves what it returned or raised in ret

Call_parse_response ==
    /\ op = "parse_response"
    /\ ret = Pending
    /\ ret' = ParseResponse(data)
    /\ UNCHANGED <<op, cmd_id, data, arg, remoteVars, setupVars>>

Call_build_command ==
    /\ op = "build_command"
    /\ ret = Pending
    /\ ret' = BuildCommand(cmd_id, data)
    /\ UNCHANGED <<op, cmd_id, data, arg, remoteVars, setupVars>>

\* parse_response(build_command(cmd_id, *data)): raw encoder output handed
\* to the decoder; an exception of build_command propagates
ParseBuilt(c, d) ==
    LET built == BuildCommand(c, d)
    IN  IF built.kind = "bytes" THEN ParseResponse(built.bytes) ELSE built

Call_parse_built ==
    /\ op = "parse_built"
    /\ ret = Pending
    /\ ret' = ParseBuilt(cmd_id, data)
    /\ UNCHANGED <<op, cmd_id, data, arg, remoteVars, setupVars>>

Call_cmd_power_on ==
    /\ op = "cmd_power_on"
    /\ ret = Pending
    /\ ret' = cmd_power_on
    /\ UNCHANGED <<op, cmd_id, data, arg, remoteVars, setupVars>>

Call_cmd_power_off ==
    /\ op = "cmd_power_off"
    /\ ret = Pending
    /\ ret' = cmd_power_off
    /\ UNCHANGED <<op, cmd_id, data, arg, remoteVars, setupVars>>

Call_cmd_power_query ==
    /\ op = "cmd_power_query"
    /\ ret = Pending
    /\ ret' = cmd_power_query
    /\ UNCHANGED <<op, cmd_id, data, arg, remoteVars, setupVars>>

Call_cmd_volume_set ==
    /\ op = "cmd_volume_set"
    /\ ret = Pending
    /\ ret' = cmd_volume_set(arg)
    /\ UNCHANGED <<op, cmd_id, data, arg, remoteVars, setupVars>>

Call_cmd_volume_query ==
    /\ op = "cmd_volume_query"
    /\ ret = Pending
    /\ ret' = cmd_volume_query
    /\ UNCHANGED <<op, cmd_id, data, arg, remoteVars, setupVars>>

Call_cmd_mute_on ==
    /\ op = "cmd_mute_on"
    /\ ret = Pending
    /\ ret' = cmd_mute_on
    /\ UNCHANGED <<op, cmd_id, data, arg, remoteVars, setupVars>>

Call_cmd_mute_off ==
    /\ op = "cmd_mute_off"
    /\ ret = Pending
    /\ ret' = cmd_mute_off
    /\ UNCHANGED <<op, cmd_id, data, arg, remoteVars, setupVars>>

Call_cmd_mute_query ==
    /\ op = "cmd_mute_query"
    /\ ret = Pending
    /\ ret' = cmd_mute_query
    /\ UNCHANGED <<op, cmd_id, data, arg, remoteVars, setupVars>>

Call_cmd_input_source_set ==
    /\ op = "cmd_input_source_set"
    /\ ret = Pending
    /\ ret' = cmd_input_source_set(arg)
    /\ UNCHANGED <<op, cmd_id, data, arg, remoteVars, setupVars>>

Call_cmd_input_source_query ==
    /\ op = "cmd_input_source_query"
    /\ ret = Pending
    /\ ret' = cmd_input_source_query
    /\ UNCHANGED <<op, cmd_id, data, arg, remoteVars, setupVars>>

Call_cmd_surround_mode_set ==
    /\ op = "cmd_surround_mode_set"
    /\ ret = Pending
    /\ ret' = cmd_surround_mode_set(arg)
    /\ UNCHANGED <<op, cmd_id, data, arg, remoteVars, setupVars>>

Call_cmd_surround_mode_query ==
    /\ op = "cmd_surround_mode_query"
    /\ ret = Pending
    /\ ret' = cmd_surround_mode_query
    /\ UNCHANGED <<op, cmd_id, data, arg, remoteVars, setupVars>>

Call_cmd_initialization ==
    /\ op = "cmd_initialization"
    /\ ret = Pending
    /\ ret' = cmd_initialization
    /\ UNCHANGED <<op, cmd_id, data, arg, remoteVars, setupVars>>

Call_cmd_heartbeat ==
    /\ op = "cmd_heartbeat"
    /\ ret = Pending
    /\ ret' = cmd_heartbeat
    /\ UNCHANGED <<op, cmd_id, data, arg, remoteVars, setupVars>>

Call_cmd_version_query ==
    /\ op = "cmd_version_query"
    /\ ret = Pending
    /\ ret' = cmd_version_query(arg)
    /\ UNCHANGED <<op, cmd_id, data, arg, remoteVars, setupVars>>

Call_cmd_display_dim_set ==
    /\ op = "cmd_display_dim_set"
    /\ ret = Pending
    /\ ret' = cmd_display_dim_set(arg)
    /\ UNCHANGED <<op, cmd_id, data, arg, remoteVars, setupVars>>

Call_cmd_display_dim_query ==
    /\ op = "cmd_display_dim_query"
    /\ ret = Pending
    /\ ret' = cmd_display_dim_query
    /\ UNCHANGED <<op, cmd_id, data, arg, remoteVars, setupVars>>

Call_cmd_ir_simulate ==
    /\ op = "cmd_ir_simulate"
    /\ ret = Pending
    /\ ret' = cmd_ir_simulate(arg)
    /\ UNCHANGED <<op, cmd_id, data, arg, remoteVars, setupVars>>

Call_cmd_party_mode_on ==
    /\ op = "cmd_party_mode_on"
    /\ ret = Pending
    /\ ret' = cmd_party_mode_on
    /\ UNCHANGED <<op, cmd_id, data, arg, remoteVars, setupVars>>

Call_cmd_party_mode_off ==
    /\ op = "cmd_party_mode_off"
    /\ ret = Pending
    /\ ret' = cmd_party_mode_off
    /\ UNCHANGED <<op, cmd_id, data, arg, remoteVars, setupVars>>

Call_cmd_party_mode_query ==
    /\ op = "cmd_party_mode_query"
    /\ ret = Pending
    /\ ret' = cmd_party_mode_query
    /\ UNCHANGED <<op, cmd_id, data, arg, remoteVars, setupVars>>

Call_cmd_party_volume_set ==
    /\ op = "cmd_party_volume_set"
    /\ ret = Pending
    /\ ret' = cmd_party_volume_set(arg)
    /\ UNCHANGED <<op, cmd_id, data, arg, remoteVars, setupVars>>

Call_cmd_party_volume_query ==
    /\ op = "cmd_party_volume_query"
    /\ ret = Pending
    /\ ret' = cmd_party_volume_query
    /\ UNCHANGED <<op, cmd_id, data, arg, remoteVars, setupVars>>

Call_cmd_treble_eq_set ==
    /\ op = "cmd_treble_eq_set"
    /\ ret = Pending
    /\ ret' = cmd_treble_eq_set(arg)
    /\ UNCHANGED <<op, cmd_id, data, arg, remoteVars, setupVars>>

Call_cmd_treble_eq_query ==
    /\ op = "cmd_treble_eq_query"
    /\ ret = Pending
    /\ ret' = cmd_treble_eq_query
    /\ UNCHANGED <<op, cmd_id, data, arg, remoteVars, setupVars>>

Call_cmd_bass_eq_set ==
    /\ op = "cmd_bass_eq_set"
    /\ ret = Pending
    /\ ret' = cmd_bass_eq_set(arg)
    /\ UNCHANGED <<op, cmd_id, data, arg, remoteVars, setupVars>>

Call_cmd_bass_eq_query ==
    /\ op = "cmd_bass_eq_query"
    /\ ret = Pending
    /\ ret' = cmd_bass_eq_query
    /\ UNCHANGED <<op, cmd_id, data, arg, remoteVars, setupVars>>

Call_cmd_room_eq_on ==
    /\ op = "cmd_room_eq_on"
    /\ ret = Pending
    /\ ret' = cmd_room_eq_on
    /\ UNCHANGED <<op, cmd_id, data, arg, remoteVars, setupVars>>

Call_cmd_room_eq_off ==
    /\ op = "cmd_room_eq_off"
    /\ ret = Pending
    /\ ret' = cmd_room_eq_off
    /\ UNCHANGED <<op, cmd_id, data, arg, remoteVars, setupVars>>

Call_cmd_room_eq_query ==
    /\ op = "cmd_room_eq_query"
    /\ ret = Pending
    /\ ret' = cmd_room_eq_query
    /\ UNCHANGED <<op, cmd_id, data, arg, remoteVars, setupVars>>

Call_cmd_dialog_enhanced_on ==
    /\ op = "cmd_dialog_enhanced_on"
    /\ ret = Pending
    /\ ret' = cmd_dialog_enhanced_on
    /\ UNCHANGED <<op, cmd_id, data, arg, remoteVars, setupVars>>

Call_cmd_dialog_enhanced_off ==
    /\ op = "cmd_dialog_enhanced_off"
    /\ ret = Pending
    /\ ret' = cmd_dialog_enhanced_off
    /\ UNCHANGED <<op, cmd_id, data, arg, remoteVars, setupVars>>

Call_cmd_dialog_enhanced_query ==
    /\ op = "cmd_dialog_enhanced_query"
    /\ ret = Pending
    /\ ret' = cmd_dialog_enhanced_query
    /\ UNCHANGED <<op, cmd_id, data, arg, remoteVars, setupVars>>

Call_cmd_dolby_audio_mode_on ==
    /\ op = "cmd_dolby_audio_mode_on"
    /\ ret = Pending
    /\ ret' = cmd_dolby_audio_mode_on
    /\ UNCHANGED <<op, cmd_id, data, arg, remoteVars, setupVars>>

Call_cmd_dolby_audio_mode_off ==
    /\ op = "cmd_dolby_audio_mode_off"
    /\ ret = Pending
    /\ ret' = cmd_dolby_audio_mode_off
    /\ UNCHANGED <<op, cmd_id, data, arg, remoteVars, setupVars>>

Call_cmd_dolby_audio_mode_query ==
    /\ op = "cmd_dolby_audio_mode_query"
    /\ ret = Pending
    /\ ret' = cmd_dolby_audio_mode_query
    /\ UNCHANGED <<op, cmd_id, data, arg, remoteVars, setupVars>>

Call_cmd_drc_on ==
    /\ op = "cmd_drc_on"
    /\ ret = Pending
    /\ ret' = cmd_drc_on
    /\ UNCHANGED <<op, cmd_id, data, arg, remoteVars, setupVars>>

Call_cmd_drc_off ==
    /\ op = "cmd_drc_off"
    /\ ret = Pending
    /\ ret' = cmd_drc_off
    /\ UNCHANGED <<op, cmd_id, data, arg, remoteVars, setupVars>>

Call_cmd_drc_query ==
    /\ op = "cmd_drc_query"
    /\ ret = Pending
    /\ ret' = cmd_drc_query
    /\ UNCHANGED <<op, cmd_id, data, arg, remoteVars, setupVars>>

Call_cmd_streaming_state_query ==
    /\ op = "cmd_streaming_state_query"
    /\ ret = Pending
    /\ ret' = cmd_streaming_state_query
    /\ UNCHANGED <<op, cmd_id, data, arg, remoteVars, setupVars>>

Call_cmd_reboot ==
    /\ op = "cmd_reboot"
    /\ ret = Pending
    /\ ret' = cmd_reboot
    /\ UNCHANGED <<op, cmd_id, data, arg, remoteVars, setupVars>>

Call_cmd_factory_reset ==
    /\ op = "cmd_factory_reset"
    /\ ret = Pending
    /\ ret' = cmd_factory_reset
    /\ UNCHANGED <<op, cmd_id, data, arg, remoteVars, setupVars>>

Next ==
    \/ Call_parse_response
    \/ Call_build_command
    \/ Call_parse_built
    \/ Call_cmd_power_on
    \/ Call_cmd_power_off
    \/ Call_cmd_power_query
    \/ Call_cmd_volume_set
    \/ Call_cmd_volume_query
    \/ Call_cmd_mute_on
    \/ Call_cmd_mute_off
    \/ Call_cmd_mute_query
    \/ Call_cmd_input_source_set
    \/ Call_cmd_input_source_query
    \/ Call_cmd_surround_mode_set
    \/ Call_cmd_surround_mode_query
    \/ Call_cmd_initialization
    \/ Call_cmd_heartbeat
    \/ Call_cmd_version_query
    \/ Call_cmd_display_dim_set
    \/ Call_cmd_display_dim_query
    \/ Call_cmd_ir_simulate
    \/ Call_cmd_party_mode_on
    \/ Call_cmd_party_mode_off
    \/ Call_cmd_party_mode_query
    \/ Call_cmd_party_volume_set
    \/ Call_cmd_party_volume_query
    \/ Call_cmd_treble_eq_set
    \/ Call_cmd_treble_eq_query
    \/ Call_cmd_bass_eq_set
    \/ Call_cmd_bass_eq_query
    \/ Call_cmd_room_eq_on
    \/ Call_cmd_room_eq_off
    \/ Call_cmd_room_eq_query
    \/ Call_cmd_dialog_enhanced_on
    \/ Call_cmd_dialog_enhanced_off
    \/ Call_cmd_dialog_enhanced_query
    \/ Call_cmd_dolby_audio_mode_on
    \/ Call_cmd_dolby_audio_mode_off
    \/ Call_cmd_dolby_audio_mode_query
    \/ Call_cmd_drc_on
    \/ Call_cmd_drc_off
    \/ Call_cmd_drc_query
    \/ Call_cmd_streaming_state_query
    \/ Call_cmd_reboot
    \/ Call_cmd_factory_reset

Spec == Init /\ [][Next]_vars

-----------------------------------------------------------------------------
(* JBLAVRemote (remote.py): the STATE attribute under device updates *)

\* most device updates the entity receives in a checked behaviour
MaxUpdates == 3

\* Python values a device attribute may hold, written as their literals
PowerValues == {"True", "False", "0", "'off'"}
\* bool(v): False, 0, None and the empty string are falsy, all else truthy
Truthy(v) == v \notin {"False", "0", "None", "''"}

\* the attribute dicts of an update: "power" and "volume", each optional
AttributeDicts ==
    { [k \in {} |-> "None"], [volume |-> "50"] }
    \cup { [power |-> p] : p \in PowerValues }
    \cup { [power |-> p, volume |-> "50"] : p \in PowerValues }

\* variant: attributes.get("power") read without the membership test
StateAfterUpdate_get(cur, attributes) ==
    IF "power" \in DOMAIN attributes /\ Truthy(attributes["power"])
    THEN "ON" ELSE "OFF"
\* if "power" in attributes:
\*     self.attributes[Attributes.STATE] = States.ON if attributes["power"] else States.OFF
StateAfterUpdate(cur, attributes) ==
    IF "power" \in DOMAIN attributes
    THEN IF Truthy(attributes["power"]) THEN "ON" ELSE "OFF"
    ELSE cur

\* emit_update: api.configured_entities.update(self) if the api is there
emit_update(n, a) == IF a THEN n + 1 ELSE n

\* _on_device_update calls emit_update only inside the "power" branch
EmittedAfterUpdate(n, a, attributes) ==
    IF "power" \in DOMAIN attributes THEN emit_update(n, a) ELSE n

RemoteInit ==
    /\ RemoteConstructed
    /\ SetupIdle
    /\ op = "idle"
    /\ cmd_id = 0
    /\ data = <<>>
    /\ arg = 0
    /\ ret = Pending

\* the device emits an update event: _on_device_update(entity_id, attributes)
OnDeviceUpdate ==
    \E attributes \in AttributeDicts :
        /\ Len(updates) < MaxUpdates
        /\ updates' = Append(updates, attributes)
        /\ remote_state' = StateAfterUpdate(remote_state, attributes)
        /\ emitted' = EmittedAfterUpdate(emitted, api, attributes)
        /\ UNCHANGED <<api, cmd_status, codecVars, setupVars>>

\* the framework attaches the integration api to the entity, or drops it
SetApi ==
    /\ api' = ~api
    /\ UNCHANGED <<remote_state, emitted, updates, cmd_status, codecVars, setupVars>>

\* handle_command: returns StatusCodes.OK and touches no attribute
HandleCommand ==
    /\ cmd_status' = "OK"
    /\ UNCHANGED <<remote_state, api, emitted, updates, codecVars, setupVars>>

NextRemote ==
    \/ OnDeviceUpdate
    \/ SetApi
    \/ HandleCommand

SpecRemote == RemoteInit /\ [][NextRemote]_vars

-----------------------------------------------------------------------------
(* JBLAVSetupFlow.query_device (setup_flow.py): one run of the coroutine, *)
(* cut at its two await points                                             *)

\* texts are sequences of characters; "h" and "n" stand for any other one
HostTexts == { <<>>, <<" ">>, <<"h">>, <<" ", "h", ".", "h", " ">> }
PortTexts == { "50000", "8080", "abc", "" }
NameTexts == { <<"n">>, <<" ", "n">> }

\* the setup form's dict: every field may be missing
InputDicts ==
    { [k \in {} |-> <<>>] }
    \cup { [host |-> h] : h \in HostTexts }
    \cup { [port |-> p] : p \in PortTexts }
    \cup { [name |-> n] : n \in NameTexts }
    \cup { [host |-> h, port |-> p] : h \in HostTexts, p \in PortTexts }
    \cup { [host |-> h, name |-> n] : h \in HostTexts, n \in NameTexts }
    \cup { [port |-> p, name |-> n] : p \in PortTexts, n \in NameTexts }
    \cup { [host |-> h, port |-> p, name |-> n] :
             h \in HostTexts, p \in PortTexts, n \in NameTexts }

\* dict.get(key, default)
Get(d, k, default) == IF k \in DOMAIN d THEN d[k] ELSE default

\* str.strip(): leading and trailing whitespace removed
RECURSIVE LStrip(_)
LStrip(t) == IF t # <<>> /\ Head(t) = " " THEN LStrip(Tail(t)) ELSE t
RECURSIVE RStrip(_)
RStrip(t) ==
    IF t # <<>> /\ t[Len(t)] = " " THEN RStrip(SubSeq(t, 1, Len(t) - 1)) ELSE t
Strip(t) == RStrip(LStrip(t))

\* str.replace(a, b) on single characters
Replace(t, a, b) == [i \in 1..Len(t) |-> IF t[i] = a THEN b ELSE t[i]]

\* int(text): the integer of a decimal literal, ValueError otherwise
IntLiterals == ("50000" :> 50000) @@ ("8080" :> 8080)
IsIntLiteral(p) == p \in DOMAIN IntLiterals

\* host = input_values.get("host", "").strip()
HostOf(iv) == Strip(Get(iv, "host", <<>>))
\* port = int(input_values.get("port", 50000))
PortGiven(iv) == "port" \in DOMAIN iv
PortOf(iv) == IF PortGiven(iv) THEN IntLiterals[iv["port"]] ELSE 50000
\* name = input_values.get("name", f"JBL AV ({host})").strip()
NameOf(iv) == Strip(Get(iv, "name", <<"JBL AV (">> \o HostOf(iv) \o <<")">>))

\* JBLAVConfig(identifier=f"jblav_{host.replace('.', '_')}_{port}", ...)
TestConfig(iv) ==
    [ identifier |-> [prefix |-> "jblav", host |-> Replace(HostOf(iv), ".", "_"),
                      port |-> PortOf(iv)],
      name |-> NameOf(iv),
      host |-> HostOf(iv),
      port |-> PortOf(iv) ]

\* what query_device leaves: a returned config or a raised exception
ReturnedConfig(c) == [kind |-> "config", exc |-> "", msg |-> "", config |-> c]
Raised(e, m) == [kind |-> "raise", exc |-> e, msg |-> m]

\* the exception classes met here and their base classes
Bases(e) ==
    CASE e = "TimeoutError" -> {"TimeoutError", "OSError", "Exception"}
      [] e = "ConnectionError" -> {"ConnectionError", "OSError", "Exception"}
      [] e = "ConnectionRefusedError" ->
             {"ConnectionRefusedError", "ConnectionError", "OSError", "Exception"}
      [] e = "ValueError" -> {"ValueError", "Exception"}
      [] e = "RuntimeError" -> {"RuntimeError", "Exception"}
      [] e = "CancelledError" -> {"CancelledError"}
IsInstance(e, c) == c \in Bases(e) \cup {"BaseException"}

\* the Exception classes connect() and disconnect() are taken to raise
DeviceExceptions ==
    {"TimeoutError", "ConnectionError", "ConnectionRefusedError",
     "RuntimeError"}

\* variant: the handlers without the closing "except Exception" clause
ExceptClauses_no_generic(e) ==
    IF IsInstance(e, "TimeoutError") THEN Raised("ValueError", "Connection timeout")
    ELSE IF IsInstance(e, "ConnectionError")
         THEN Raised("ValueError", "Failed to connect")
    ELSE Raised(e, "")
\* the three except clauses of the try block, in their order; an exception
\* none of them matches propagates as it is
ExceptClauses(e) ==
    IF IsInstance(e, "TimeoutError") THEN Raised("ValueError", "Connection timeout")
    ELSE IF IsInstance(e, "ConnectionError")
         THEN Raised("ValueError", "Failed to connect")
    ELSE IF IsInstance(e, "Exception") THEN Raised("ValueError", "Setup failed")
    ELSE Raised(e, "")

SetupInit ==
    /\ RemoteConstructed
    /\ op = "idle"
    /\ cmd_id = 0
    /\ data = <<>>
    /\ arg = 0
    /\ ret = Pending
    /\ qd_pc = "called"
    /\ input_values \in InputDicts
    /\ connected = "not_called"
    /\ disconnect = "not_called"
    /\ qd_result = NoResult

\* from the call to the first await: the host and port are read, the test
\* config and device are made, connect() is started under wait_for
QueryDeviceStart ==
    /\ qd_pc = "called"
    /\ IF HostOf(input_values) = <<>>
       THEN /\ qd_result' = Raised("ValueError", "IP address is required")
            /\ qd_pc' = "raised"
            /\ UNCHANGED connected
       ELSE IF PortGiven(input_values) /\ ~IsIntLiteral(input_values["port"])
       THEN /\ qd_result' = Raised("ValueError", "invalid literal for int()")
            /\ qd_pc' = "raised"
            /\ UNCHANGED connected
       ELSE /\ connected' = "awaited"
            /\ qd_pc' = "await_connect"
            /\ UNCHANGED qd_result
    /\ UNCHANGED <<input_values, disconnect, codecVars, remoteVars>>

\* connect() returns in time: a truthy value leads to the disconnect() call,
\* a falsy one to the ValueError raised inside the try block
ConnectReturns ==
    \E v \in {"True", "False", "None"} :
        /\ qd_pc = "await_connect"
        /\ connected' = v
        /\ IF Truthy(v)
           THEN /\ disconnect' = "awaited"
                /\ qd_pc' = "await_disconnect"
                /\ UNCHANGED qd_result
           ELSE /\ qd_result' = ExceptClauses("ValueError")
                /\ qd_pc' = "raised"
                /\ UNCHANGED disconnect
        /\ UNCHANGED <<input_values, codecVars, remoteVars>>

\* the 15 s of wait_for pass first: asyncio.TimeoutError
ConnectTimesOut ==
    /\ qd_pc = "await_connect"
    /\ connected' = "timed_out"
    /\ qd_result' = ExceptClauses("TimeoutError")
    /\ qd_pc' = "raised"
    /\ UNCHANGED <<input_values, disconnect, codecVars, remoteVars>>

\* connect() raises
ConnectRaises ==
    \E e \in DeviceExceptions :
        /\ qd_pc = "await_connect"
        /\ connected' = "raised"
        /\ qd_result' = ExceptClauses(e)
        /\ qd_pc' = "raised"
        /\ UNCHANGED <<input_values, disconnect, codecVars, remoteVars>>

\* disconnect() completes: return test_config
DisconnectReturns ==
    /\ qd_pc = "await_disconnect"
    /\ disconnect' = "completed"
    /\ qd_result' = ReturnedConfig(TestConfig(input_values))
    /\ qd_pc' = "returned"
    /\ UNCHANGED <<input_values, connected, codecVars, remoteVars>>

\* disconnect() raises
DisconnectRaises ==
    \E e \in DeviceExceptions :
        /\ qd_pc = "await_disconnect"
        /\ disconnect' = "raised"
        /\ qd_result' = ExceptClauses(e)
        /\ qd_pc' = "raised"
        /\ UNCHANGED <<input_values, connected, codecVars, remoteVars>>

NextSetup ==
    \/ QueryDeviceStart
    \/ ConnectReturns
    \/ ConnectTimesOut
    \/ ConnectRaises
    \/ DisconnectReturns
    \/ DisconnectRaises

SpecSetup == SetupInit /\ [][NextSetup]_vars

-----------------------------------------------------------------------------
(* Vocabulary of the properties *)

Returned == ret # Pending
Parsed == op = "parse_response" /\ Returned

\* the first two bytes are the inbound start marker 0x02 0x23
StartsWithRespStart(d) == Len(d) >= 2 /\ d[1] = 2 /\ d[2] = 35
\* the last byte is the end marker 0x0D
EndsWithEnd(d) == Len(d) >= 1 /\ d[Len(d)] = 13
\* 0x02 0x23 | cmd | rsp | n | d_1..d_n | 0x0D with n the number of data bytes
WellFormedInbound(d) ==
    /\ Len(d) >= 6
    /\ StartsWithRespStart(d)
    /\ EndsWithEnd(d)
    /\ d[5] = Len(d) - 6

\* 0x23 | c | len(d) | d | 0x0D, every part a byte
OutboundFrameOf(f, c, d) ==
    /\ Len(f) = Len(d) + 4
    /\ f[1] = 35
    /\ f[2] = c
    /\ f[3] = Len(d)
    /\ f[3] \in 0..255
    /\ Len(f) = 4 + f[3]
    /\ SubSeq(f, 4, Len(f) - 1) = d
    /\ f[Len(f)] = 13

\* a frame of the outbound shape, whatever its command and data
WellFormedOutbound(f) ==
    /\ Len(f) >= 4
    /\ \A i \in 1..Len(f) : f[i] \in 0..255
    /\ f[1] = 35
    /\ Len(f) = 4 + f[3]
    /\ f[Len(f)] = 13

-----------------------------------------------------------------------------
(* C1: parse_response returns a decoded response only if                    *)
(* len(b) = 6 + b[4]; whenever DATA_LEN differs from len(b) - 6 the result  *)
(* is None.                                                                 *)
C1_DecodedOnlyIfExactLength ==
    (Parsed /\ ret.kind = "dict") => (Len(data) >= 6 /\ Len(data) = 6 + data[5])

(* C2: parse_response returns None for every byte sequence of length 0..5,  *)
(* whatever its content.                                                    *)
C2_ShorterThanSixIsAbsent ==
    (Parsed /\ Len(data) <= 5) => ret = None

\* a five-byte input with both markers in place was parsed
C2_Witness ==
    /\ Parsed
    /\ Len(data) = 5
    /\ StartsWithRespStart(data)
    /\ EndsWithEnd(data)
    /\ ret = None

(* C3: every well-formed inbound frame 02 23 | cmd | rsp | n | d_1..d_n | 0D *)
(* decodes to exactly cmd_id = cmd, rsp_code = rsp, data = [d_1..d_n],       *)
(* whatever cmd and rsp are and whatever the data bytes hold.                *)
C3_WellFormedFrameDecodes ==
    (Parsed /\ WellFormedInbound(data)) =>
        ret = Dict(data[3], data[4], SubSeq(data, 6, Len(data) - 1))

\* a frame of an unknown command with a rejection code, whose data holds the
\* end marker and the outbound start marker, was decoded
C3_Witness ==
    /\ Parsed
    /\ WellFormedInbound(data)
    /\ data[3] \notin JBLCommand
    /\ data[4] = COMMAND_NOT_RECOGNIZED
    /\ SubSeq(data, 6, Len(data) - 1) = <<13, 35>>
    /\ ret.kind = "dict"

(* C4: parse_response returns None for every input whose first two bytes    *)
(* are not 02 23 and for every input whose last byte is not 0D.             *)
C4_BadMarkerIsAbsent ==
    (Parsed /\ (~StartsWithRespStart(data) \/ ~EndsWithEnd(data))) => ret = None

\* an otherwise valid one-data-byte frame ending in 0x0A was parsed
C4_Witness ==
    /\ Parsed
    /\ Len(data) = 7
    /\ StartsWithRespStart(data)
    /\ data[5] = 1
    /\ data[7] = 10
    /\ ret = None

(* C5: parse_response is total: on every input it returns a decoded         *)
(* response or None and raises nothing.                                     *)
C5_ParseNeverRaises ==
    /\ (op = "parse_response" /\ ~Returned) => ENABLED Call_parse_response
    /\ Parsed => ret.kind \in {"None", "dict"}

\* a frame that declares more data than it holds was parsed
C5_Witness ==
    /\ Parsed
    /\ Len(data) >= 6
    /\ StartsWithRespStart(data)
    /\ EndsWithEnd(data)
    /\ data[5] > Len(data) - 6
    /\ ret = None

(* C6: every frame build_command(cmd_id, *data) returns is                  *)
(* 0x23 | cmd_id | len(data) | data | 0x0D with byte 2 the number of data   *)
(* bytes supplied, a value in 0..255, and total length 4 + byte 2; with     *)
(* more than 255 data bytes the call is rejected, no frame is returned.     *)
C6_BuiltFrameShape ==
    (op = "build_command" /\ Returned) =>
        /\ ret.kind \in {"bytes", "raise"}
        /\ ret.kind = "bytes" => OutboundFrameOf(ret.bytes, cmd_id, data)
        /\ Len(data) > 255 => ret.kind = "raise"

\* a frame with the largest data section, 255 bytes, was built
C6_Witness ==
    /\ op = "build_command"
    /\ Len(data) = 255
    /\ ret.kind = "bytes"
    /\ ret.bytes[3] = 255

(* C7: every parameterised catalog builder returns a well-formed outbound   *)
(* frame for every integer argument, negative or above 255 included, and    *)
(* raises nothing.                                                          *)
C7_BuildersTotal ==
    (op \in ArgBuilders \cup {"cmd_ir_simulate"} /\ Returned) =>
        /\ ret.kind = "bytes"
        /\ WellFormedOutbound(ret.bytes)

\* the builders that set a value of a command which also has a query builder
SetBuilders ==
    { "cmd_volume_set", "cmd_party_volume_set", "cmd_display_dim_set",
      "cmd_treble_eq_set", "cmd_bass_eq_set", "cmd_input_source_set",
      "cmd_surround_mode_set",
      "cmd_power_on", "cmd_power_off", "cmd_mute_on", "cmd_mute_off",
      "cmd_party_mode_on", "cmd_party_mode_off", "cmd_room_eq_on",
      "cmd_room_eq_off", "cmd_dialog_enhanced_on", "cmd_dialog_enhanced_off",
      "cmd_dolby_audio_mode_on", "cmd_dolby_audio_mode_off", "cmd_drc_on",
      "cmd_drc_off" }

QueryFrames ==
    { cmd_power_query, cmd_volume_query, cmd_mute_query,
      cmd_input_source_query, cmd_surround_mode_query, cmd_display_dim_query,
      cmd_party_mode_query, cmd_party_volume_query, cmd_treble_eq_query,
      cmd_bass_eq_query, cmd_room_eq_query, cmd_dialog_enhanced_query,
      cmd_dolby_audio_mode_query, cmd_drc_query }

(* C8: for every command with a set builder and a query builder, no         *)
(* argument to the set builder yields the data byte 0xF0, so a set frame    *)
(* never equals the query frame of the same command.                        *)
C8_SetNeverEqualsQuery ==
    (op \in SetBuilders /\ ret.kind = "bytes") =>
        /\ \A i \in 4..(Len(ret.bytes) - 1) : ret.bytes[i] # 240
        /\ ret \notin QueryFrames

\* the builders of the room-EQ command
RoomEqBuilders == {"cmd_room_eq_on", "cmd_room_eq_off", "cmd_room_eq_query"}

(* C9: the start marker 0x23 and the end marker 0x0D differ from every      *)
(* command identifier of JBLCommand, so the CMD_ID byte of a frame built by *)
(* a catalog builder is never START or END.                                 *)
C9_MarkersAreNoCommandIds ==
    (op \in CatalogBuilders /\ ret.kind = "bytes") =>
        /\ ret.bytes[2] \in JBLCommand
        /\ ret.bytes[2] \notin {35, 13}

(* C9 as amended: the start marker 0x23 differs from every command          *)
(* identifier; the end marker 0x0D is the identifier ROOM_EQ and differs    *)
(* from every other one, so the CMD_ID byte of a catalog-built frame is     *)
(* never START and is END exactly in the frames of the room-EQ builders.    *)
C9_OnlyRoomEqIsEnd ==
    /\ \A c \in JBLCommand : c # 35 /\ (c = 13 <=> c = ROOM_EQ)
    /\ (op \in CatalogBuilders /\ ret.kind = "bytes") =>
           /\ ret.bytes[2] # 35
           /\ ret.bytes[2] = 13 <=> op \in RoomEqBuilders

\* a room-EQ frame was built: its CMD_ID byte is the end marker
C9_Witness ==
    /\ op = "cmd_room_eq_on"
    /\ ret.kind = "bytes"
    /\ ret.bytes[2] = 13
    /\ ret.bytes[Len(ret.bytes)] = 13

(* C10: parse_response(build_command(cmd_id, *data)) is None for every      *)
(* command identifier and data tuple for which build_command returns a      *)
(* frame.                                                                   *)
C10_EncoderOutputNotDecoded ==
    (op = "parse_built" /\ Returned /\ BuildCommand(cmd_id, data).kind = "bytes") =>
        ret = None

\* a frame whose CMD_ID is 0x23 and whose bytes after it read as a complete
\* inbound frame body was built and handed to the decoder
C10_Witness ==
    /\ op = "parse_built"
    /\ cmd_id = 35
    /\ data = <<0, 0>>
    /\ ret = None

-----------------------------------------------------------------------------
\* min(hi, max(lo, v))
Clamped(v, lo, hi) == IF v < lo THEN lo ELSE IF v > hi THEN hi ELSE v

(* C11: for every integer v, cmd_volume_set(v) and cmd_party_volume_set(v)  *)
(* emit exactly one data byte min(99, max(0, v)) under the identifiers 0x06 *)
(* and 0x0A, and cmd_display_dim_set(v) emits exactly one data byte         *)
(* min(3, max(0, v)) under 0x01.                                            *)
C11_VolumeAndDimClamp ==
    /\ (op = "cmd_volume_set" /\ Returned) =>
           ret = Bytes(<<35, 6, 1, Clamped(arg, 0, 99), 13>>)
    /\ (op = "cmd_party_volume_set" /\ Returned) =>
           ret = Bytes(<<35, 10, 1, Clamped(arg, 0, 99), 13>>)
    /\ (op = "cmd_display_dim_set" /\ Returned) =>
           ret = Bytes(<<35, 1, 1, Clamped(arg, 0, 3), 13>>)

\* volume 150 was encoded, as 99
C11_Witness ==
    /\ op = "cmd_volume_set"
    /\ arg = 150
    /\ ret.kind = "bytes"
    /\ ret.bytes[4] = 99

(* C12: for every integer level, cmd_treble_eq_set(level) and               *)
(* cmd_bass_eq_set(level) emit exactly one data byte                        *)
(* min(12, max(0, level + 6)): the shift by 6 comes before the clamp.       *)
C12_EqShiftThenClamp ==
    /\ (op = "cmd_treble_eq_set" /\ Returned) =>
           ret = Bytes(<<35, 11, 1, Clamped(arg + 6, 0, 12), 13>>)
    /\ (op = "cmd_bass_eq_set" /\ Returned) =>
           ret = Bytes(<<35, 12, 1, Clamped(arg + 6, 0, 12), 13>>)

\* treble level 100 was encoded, as 12
C12_Witness ==
    /\ op = "cmd_treble_eq_set"
    /\ arg = 100
    /\ ret.kind = "bytes"
    /\ ret.bytes[4] = 12

(* C13: for every IR code c in 0..2^24-1, cmd_ir_simulate(c) returns the    *)
(* 7-byte frame 0x23 | 0x04 | 0x03 | d1 | d2 | d3 | 0x0D with the bytes     *)
(* most-significant first, d1*65536 + d2*256 + d3 = c.                      *)
C13_IrThreeBytesMsbFirst ==
    (op = "cmd_ir_simulate" /\ Returned /\ arg \in 0..(2^24 - 1)) =>
        /\ ret.kind = "bytes"
        /\ Len(ret.bytes) = 7
        /\ ret.bytes[1] = 35 /\ ret.bytes[2] = 4 /\ ret.bytes[3] = 3
        /\ ret.bytes[7] = 13
        /\ \A i \in 4..6 : ret.bytes[i] \in 0..255
        /\ ret.bytes[4] * 65536 + ret.bytes[5] * 256 + ret.bytes[6] = arg

\* the power code 0x010E03 was encoded, as 01 0E 03
C13_Witness ==
    /\ op = "cmd_ir_simulate"
    /\ arg = 69123
    /\ ret = Bytes(<<35, 4, 3, 1, 14, 3, 13>>)

-----------------------------------------------------------------------------
\* the "power" value of the most recent update that held one, "absent" if none
LastPower(log) ==
    LET withPower == { i \in 1..Len(log) : "power" \in DOMAIN log[i] }
    IN  IF withPower = {} THEN "absent"
        ELSE log[CHOOSE i \in withPower : \A j \in withPower : j <= i]["power"]

\* STATE is what the latest "power" value says, UNAVAILABLE before the first
C14_StateFollowsLastPower ==
    /\ LastPower(updates) = "absent" => remote_state = "UNAVAILABLE"
    /\ (LastPower(updates) # "absent" /\ Truthy(LastPower(updates))) =>
           remote_state = "ON"
    /\ (LastPower(updates) # "absent" /\ ~Truthy(LastPower(updates))) =>
           remote_state = "OFF"

\* a step that delivers an update without "power" changes neither STATE
\* nor the number of entity updates emitted
C14_UpdateWithoutPowerChangesNothing ==
    (/\ Len(updates') = Len(updates) + 1
     /\ "power" \notin DOMAIN updates'[Len(updates')]) =>
        /\ remote_state' = remote_state
        /\ emitted' = emitted

\* no step takes STATE back to UNAVAILABLE
C14_NeverBackToUnavailable ==
    remote_state # "UNAVAILABLE" => remote_state' # "UNAVAILABLE"

(* C14: the remote's STATE starts as UNAVAILABLE and, after any sequence of *)
(* device updates, is ON if the most recent update holding "power" had a    *)
(* truthy value and OFF if it had a falsy one; an update without "power"    *)
(* leaves STATE unchanged and emits no entity update, and STATE never       *)
(* returns to UNAVAILABLE once a power update has been seen.                *)
C14_StateTracksPower ==
    /\ []C14_StateFollowsLastPower
    /\ [][C14_UpdateWithoutPowerChangesNothing]_vars
    /\ [][C14_NeverBackToUnavailable]_vars

\* power on, then power off, then an update without power: STATE is OFF
C14_Witness ==
    /\ Len(updates) = 3
    /\ updates[1] = [power |-> "True"]
    /\ updates[2] = [power |-> "0", volume |-> "50"]
    /\ updates[3] = [volume |-> "50"]
    /\ api
    /\ emitted = 2
    /\ remote_state = "OFF"

-----------------------------------------------------------------------------
\* query_device has ended
SetupEnded == qd_pc \in {"returned", "raised"}
\* connect() completed with a truthy result within the timeout
ConnectSucceeded == connected \notin {"not_called", "awaited", "timed_out", "raised"}
                    /\ Truthy(connected)

(* C15: query_device returns a configuration only where connect() completed *)
(* with a truthy result within the timeout and disconnect() was then called *)
(* and completed; on every other path it returns no configuration and       *)
(* raises ValueError, and on those paths disconnect() is not called.        *)
C15_ConfigOnlyAfterCleanRoundTrip ==
    SetupEnded =>
        /\ qd_result.kind = "config" =>
               (ConnectSucceeded /\ disconnect = "completed")
        /\ ~(ConnectSucceeded /\ disconnect = "completed") =>
               /\ qd_result.kind = "raise"
               /\ qd_result.exc = "ValueError"
               /\ disconnect = "not_called"

(* C15 as amended: query_device returns a configuration only where          *)
(* connect() completed with a truthy result within the timeout and          *)
(* disconnect() was then called and completed; on every other path it       *)
(* returns no configuration and raises ValueError. disconnect() is not      *)
(* called on the failure paths that end before or in connect(); on the one  *)
(* left, disconnect() was called after a successful connect() and raised.   *)
C15_ConfigOnlyAfterCleanRoundTripElseValueError ==
    SetupEnded =>
        /\ qd_result.kind = "config" =>
               (ConnectSucceeded /\ disconnect = "completed")
        /\ ~(ConnectSucceeded /\ disconnect = "completed") =>
               /\ qd_result.kind = "raise"
               /\ qd_result.exc = "ValueError"
               /\ disconnect \in {"not_called", "raised"}
               /\ disconnect = "raised" <=> ConnectSucceeded

\* connect() succeeded, disconnect() was called and raised: ValueError
C15_Witness ==
    /\ qd_pc = "raised"
    /\ connected = "True"
    /\ disconnect = "raised"
    /\ qd_result = Raised("ValueError", "Setup failed")

=============================================================================
